---- MODULE Spec2Model ----
(***************************************************************************)
(* The content-relation pipeline of aggrep-api: the scheduled jobs         *)
(* (Collector, Processor, EntityExtractor, Relater, CTR), the JobLock      *)
(* records that coordinate them, and the tables they read and write.       *)
(* Processor is jobs/process.py, EntityExtractor is jobs/entities.py, the  *)
(* one the process command runs; both work under PROCESS.  Every database  *)
(* statement that commits is one step of the job that issues it; steps of  *)
(* different invocations interleave freely, and the clock advances between *)
(* them.                                                                   *)
(***************************************************************************)
EXTENDS Integers, Sequences, FiniteSets, TLC

\* ------------------------------------------------------------------ bounds
MaxTicks == 4
MaxLockAges == 2
MaxCrashes == 1
MaxEmptyPolls == 5
\* the queued rows beyond what one EntityExtractor run takes, and the
\* posts the Collector saves between two looks at the queue
MaxBacklog == 1
MaxArrivals == 3000

\* ------------------------------------------------------- program constants
DAY == 1440
COLLECT_TIMEOUT == 6
PROCESS_TIMEOUT == 8
RELATE_TIMEOUT == 8
ANALYZE_TIMEOUT == 4
PROCESS_BATCH_SIZE == 500
RELATE_BATCH_SIZE == 100
EXTRACT_BATCH_SIZE == 250
PER_RUN_LIMIT == 3000
TOP_N_ENTITIES == 8
THRESHOLD_PCT == 75
RECENT_DAYS == 2
MIN_UPDATE_FREQ == 3
MAX_UPDATE_FREQ == 6
COLLECT_BATCH_SIZE == 10
MAX_LENGTH == 255
NDAYS == 1

\* the static taxonomy: both feeds belong to source 1 and category 1;
\* category 2 has no feed
Feeds == {1, 2}
FeedSource(f) == 1
FeedCategory(f) == 1
Categories == <<1, 2>>

Slots == {1, 2}
JobKinds == {"COLLECT", "PROCESS", "RELATE", "ANALYZE"}
Jobs == {"Collector", "Processor", "EntityExtractor", "Relater", "CTR"}

Identifier(job) ==
    CASE job = "Collector" -> "COLLECT"
      [] job = "Processor" -> "PROCESS"
      [] job = "EntityExtractor" -> "PROCESS"
      [] job = "Relater" -> "RELATE"
      [] job = "CTR" -> "ANALYZE"

LockTimeout(job) ==
    CASE job = "Collector" -> COLLECT_TIMEOUT
      [] job = "Processor" -> PROCESS_TIMEOUT
      [] job = "EntityExtractor" -> PROCESS_TIMEOUT
      [] job = "Relater" -> RELATE_TIMEOUT
      [] job = "CTR" -> ANALYZE_TIMEOUT

\* The deployments examined.  Under contention two slots run the same job
\* and the clock moves by the job's lock timeout, so that a record is seen
\* new, exactly one timeout old, and older; alone, one Collector polls two
\* feeds and the clock moves by the longest polling interval.
Scenarios ==
    {[jobs |-> <<j, j>>, dt |-> LockTimeout(j), ticks |-> MaxLockAges, feeds |-> {1}] :
        j \in {"CTR", "Processor", "EntityExtractor", "Relater", "Collector"}}
    \cup {[jobs |-> <<"Collector", "off">>, dt |-> 64, ticks |-> MaxTicks, feeds |-> {1, 2}]}

VARIABLES
    cfg,            \* the deployment, fixed at start
    now,            \* utils.now(), in minutes
    crashes,        \* invocations killed and commits refused so far
    joblock,        \* table joblock
    posts,          \* table posts, a row's id is its index
    postActions,    \* table post_actions, by post id
    entityQueue,    \* table entity_queue: the post ids enqueued
    similarityQueue,\* table similarity_queue: the post ids enqueued
    entities,       \* table entities, in insertion order
    similarities,   \* table similarities, in insertion order
    status,         \* table feed_statuses, by feed
    feedData,       \* what each feed's url serves at the moment
    threads,        \* each invocation's process_posts workers, by feed
    cache,          \* source_cache of the process behind each slot
    pc,             \* where each slot's invocation is in run()
    loc,            \* each invocation's local variables
    hist            \* what each invocation has seen and done so far

tables == <<posts, postActions, entityQueue, similarityQueue, entities, similarities>>

coll == <<status, feedData, threads, cache>>

vars == <<cfg, now, crashes, joblock, tables, coll, pc, loc, hist>>

Contended == cfg.jobs[2] # "off"

Terminal == {"idle", "done", "skipped", "nowork", "crashed", "failed"}
Active(i) == pc[i] \notin Terminal
JobOf(i) == cfg.jobs[i]
KindOf(i) == Identifier(JobOf(i))

\* --------------------------------------------------------------- Lock
LockRows(k) == {r \in joblock : r.job = k}

IsLocked_Never(k) == FALSE

IsLocked(k) == Cardinality(LockRows(k)) > 0

First(k) == CHOOSE r \in LockRows(k) : TRUE

RowExpired_Always(r, timeout) == TRUE

RowExpired_Never(r, timeout) == FALSE

RowExpired_AtTimeout(r, timeout) == r.lock_datetime <= now - timeout

RowExpired(r, timeout) == r.lock_datetime < now - timeout

IsExpired(k, timeout) ==
    IF IsLocked(k) THEN RowExpired(First(k), timeout) ELSE FALSE

JobLockInsertOk_Always(k) == TRUE

\* joblock.job_type is declared unique
JobLockInsertOk(k) == LockRows(k) = {}

JobLockRow(k, i) == [job |-> k, lock_datetime |-> now, by |-> i]

\* ------------------------------------------------------------- history
\* what an invocation has seen and done: queued is the entity queue as it
\* stood when the invocation began and fetched the rows it took from it,
\* batches counts the batch commits of an extractor or a Relater, cut tells
\* that a lock re-check ended the loop early, and expAt is when a CTR run
\* asked for the expired posts
HistInit ==
    [startLock |-> "none", hadWork |-> FALSE, solo |-> FALSE, worked |-> FALSE,
     acquired |-> FALSE, cleared |-> FALSE, err |-> "none", at |-> 0 - 1,
     tried |-> {}, queued |-> {}, fetched |-> {}, cut |-> FALSE, batches |-> 0,
     expAt |-> 0 - 1]

\* the history after a step of slot i: every other running invocation has
\* now been interleaved with
Others(i, h) ==
    [j \in Slots |->
        IF j = i THEN h
        ELSE IF Active(j) THEN [hist[j] EXCEPT !.solo = FALSE] ELSE hist[j]]

Keep(i) == hist' = Others(i, hist[i])

Goto(i, p) == pc' = [pc EXCEPT ![i] = p]

Raise(i, e) ==
    /\ pc' = [pc EXCEPT ![i] = "crashed"]
    /\ hist' = Others(i, [hist[i] EXCEPT !.err = e])

\* an invocation's local variables; mark is the length of the posts table
\* when the batch at hand was begun
LocInit ==
    [ctx |-> "acquire", q |-> <<>>, cats |-> <<>>, ecache |-> {},
     colOff |-> 0, arcOff |-> 0, batch |-> <<>>, fin |-> <<>>,
     saving |-> <<>>, cur |-> 0, pid |-> 0, newCount |-> 0, base |-> 0,
     mark |-> 0]

ThreadInit == [st |-> "off", entries |-> <<>>, kept |-> <<>>]

\* the state of the lock record of kind k, as the clock tells it
LockState(k, timeout) ==
    IF LockRows(k) = {} THEN "none"
    ELSE IF \E r \in LockRows(k) : now - r.lock_datetime > timeout THEN "stale"
    ELSE "fresh"

\* ----------------------------------------------------------------- CTR
DuePosts_AnyImpressions ==
    {p \in DOMAIN postActions :
        /\ posts[p].published >= now - DAY
        /\ postActions[p].clicks > 0}

DuePosts ==
    {p \in DOMAIN postActions :
        /\ posts[p].published >= now - DAY
        /\ postActions[p].impressions > 0
        /\ postActions[p].clicks > 0}

ExpiredPosts ==
    {p \in DOMAIN postActions :
        /\ posts[p].published < now - DAY
        /\ postActions[p].impressions > 0
        /\ postActions[p].clicks > 0}

\* the rows of a query in the order of their ids
SetToSeq(S) ==
    [n \in 1..Cardinality(S) |->
        CHOOSE x \in S : Cardinality({y \in S : y < x}) = n - 1]

Ratio_Floor(clicks, impressions) == 1000 * (clicks \div impressions)

\* clicks / impressions, stored in a Numeric(4, 3) column: thousandths
Ratio(clicks, impressions) == (2000 * clicks + impressions) \div (2 * impressions)

\* ------------------------------------------------------------ Processor
Min(a, b) == IF a <= b THEN a ELSE b

Take(s, n) == IF Len(s) <= n THEN s ELSE SubSeq(s, 1, n)
Drop(s, n) == IF Len(s) <= n THEN <<>> ELSE SubSeq(s, n + 1, Len(s))

Range(s) == {s[n] : n \in DOMAIN s}

\* extract(clean("{title}. {desc}")) of a post's text: the tokens the
\* recogniser returns, in order
Words(text) ==
    CASE text = "t1" -> <<"fed", "rate", "hike", "fed">>
      [] text = "t2" -> <<"fed", "rate", "hike", "bank">>
      [] text = "t3" -> <<"cup", "final">>
      [] text = "t4" -> <<"fed", "rate", "bank", "cut">>
      [] text = "t5" -> <<"oslo", "rome", "bern", "riga", "kyiv", "baku",
                          "lima", "doha", "suva", "suva", "doha">>
      [] text = "none" -> <<"fed">>
      [] OTHER -> <<>>

\* entities.extract(clean("{title}. {desc}")): the texts of the spans the
\* recogniser returns, a set, here in the order it is iterated
Spans(text) ==
    CASE text = "t1" -> <<"Fed">>
      [] text = "t2" -> <<"Fed", "Bank">>
      [] text = "t3" -> <<"Cup">>
      [] text = "t4" -> <<"Fed", "Bank">>
      [] text = "t5" -> <<"Oslo", "Rome", "Bern", "Riga", "Kyiv", "Baku",
                          "Lima", "Doha", "Suva">>
      [] text = "none" -> <<"Fed">>
      [] OTHER -> <<>>

NoDesc_Never(text) == FALSE

\* a post whose desc is empty; its title still names the Fed
NoDesc(text) == text = "none"

Count(w, words) == Cardinality({n \in DOMAIN words : words[n] = w})

\* Counter.most_common(n): by falling count, first seen first among equals
RECURSIVE MostCommon(_, _, _)
MostCommon(words, left, n) ==
    IF n = 0 \/ left = {} THEN <<>>
    ELSE LET firstAt(w) == CHOOSE k \in DOMAIN words :
                              /\ words[k] = w
                              /\ \A m \in DOMAIN words : words[m] = w => k <= m
             best == CHOOSE w \in left : \A v \in left :
                        \/ Count(w, words) > Count(v, words)
                        \/ /\ Count(w, words) = Count(v, words)
                           /\ firstAt(w) <= firstAt(v)
         IN <<best>> \o MostCommon(words, left \ {best}, n - 1)

Texts == {"t1", "t2", "t3", "t4", "t5", "none"}

\* Counter(e["text"] for e in post_entities).most_common(TOP_N_ENTITIES) of
\* each text; a post without a desc is passed over
TopEntities ==
    [text \in Texts |->
        IF NoDesc(text) THEN <<>>
        ELSE MostCommon(Words(text), Range(Words(text)), TOP_N_ENTITIES)]

\* the Entity rows process_batch adds for one post
TextEntities(p, text) ==
    [n \in DOMAIN TopEntities[text] |-> [post |-> p, entity |-> TopEntities[text][n]]]

PostEntities(p) == TextEntities(p, posts[p].text)

RECURSIVE BatchEntities(_)
BatchEntities(batch) ==
    IF batch = <<>> THEN <<>>
    ELSE PostEntities(Head(batch)) \o BatchEntities(Tail(batch))

\* the posts of a batch that got at least one entity
WithEntities(batch) == {p \in Range(batch) : PostEntities(p) # <<>>}

\* the posts fetched last come first
Reverse(s) == [n \in DOMAIN s |-> s[Len(s) + 1 - n]]

\* the ids of the posts that have a row in queue table Q, ascending
QueuedPosts(Q) == SelectSeq([k \in 1..Len(posts) |-> k], LAMBDA p : p \in Q)

\* query.order_by(desc(id)).limit(n): queue rows are numbered as their
\* posts are
NewestFirst(Q, n) ==
    CHOOSE rows \in {Take(Reverse(ids), n) : ids \in {QueuedPosts(Q)}} : TRUE

\* the Entity rows EntityExtractor.process_batch adds for one post: one for
\* each span, none when the desc is empty
SpanEntities(p) ==
    IF NoDesc(posts[p].text) THEN <<>>
    ELSE [n \in DOMAIN Spans(posts[p].text) |->
            [post |-> p, entity |-> Spans(posts[p].text)[n]]]

BatchSpans_None(batch) == <<>>

\* for post in batch: ...; the rows of the posts in the batch's order
RECURSIVE BatchSpans(_)
BatchSpans(batch) ==
    IF batch = <<>> THEN <<>>
    ELSE IF Len(batch) = 1 THEN SpanEntities(batch[1])
    ELSE CHOOSE rows \in
            {BatchSpans(SubSeq(batch, 1, half))
                \o BatchSpans(SubSeq(batch, half + 1, Len(batch))) :
             half \in {Len(batch) \div 2}} : TRUE

Dequeued_None(batch) == {}

Dequeued_All(batch) == entityQueue \cup similarityQueue

\* the entity_queue rows a batch's delete removes
Dequeued(batch) == Range(batch)

\* ------------------------------------------------------------- Relater
EntitySet(p) == {entities[n].entity : n \in {m \in DOMAIN entities : entities[m].post = p}}

Overlap_Max(s1, s2) ==
    <<Cardinality(s1 \cap s2),
      IF Cardinality(s1) >= Cardinality(s2) THEN Cardinality(s1) ELSE Cardinality(s2)>>

\* utils.overlap as the fraction <<shared, smaller size>>
Overlap(s1, s2) == <<Cardinality(s1 \cap s2), Min(Cardinality(s1), Cardinality(s2))>>

AtThreshold_Strict(score) == score[1] * 100 > THRESHOLD_PCT * score[2]

AtThreshold(score) == score[1] * 100 >= THRESHOLD_PCT * score[2]

PostCategory(p) == FeedCategory(posts[p].feed)

EnqueuedPosts(c) == {p \in similarityQueue : PostCategory(p) = c}

\* set_entity_cache: <<term, post>> for the recent posts of the category
EntityCache(c) ==
    {<<entities[n].entity, entities[n].post>> : n \in
        {m \in DOMAIN entities :
            /\ posts[entities[m].post].published >= now - RECENT_DAYS * DAY
            /\ PostCategory(entities[m].post) = c}}

Candidates_Recent(p, ecache) == {pr[2] : pr \in ecache} \ {p}

Candidates_WithSelf(p, ecache) ==
    {pr[2] : pr \in {x \in ecache : x[1] \in EntitySet(p)}}

\* unioned_post_ids, less the post itself
Candidates(p, ecache) ==
    {pr[2] : pr \in {x \in ecache : x[1] \in EntitySet(p)}} \ {p}

Related_Cached(p, ecache) == {pr[2] : pr \in ecache} \ {p}

\* the candidates whose score reaches the threshold
Related(p, ecache) ==
    {rp \in Candidates(p, ecache) :
        AtThreshold(Overlap(EntitySet(p), EntitySet(rp)))}

PairRows_OneWay(p, related) ==
    [n \in 1..Len(related) |-> [source_id |-> p, related_id |-> related[n]]]

\* the Similarity rows process_batch adds for one post: s_to_r, then r_to_s
PairRows(p, related) ==
    [n \in 1..(2 * Len(related)) |->
        IF n % 2 = 1
        THEN [source_id |-> p, related_id |-> related[(n + 1) \div 2]]
        ELSE [source_id |-> related[n \div 2], related_id |-> p]]

\* the rows of one post of the batch, its related posts by id
PostSimilarities(p, ecache) ==
    CHOOSE rows \in {PairRows(p, SetToSeq(related)) :
                        related \in {Related(p, ecache)}} : TRUE

RECURSIVE BatchSimilarities(_, _)
BatchSimilarities(batch, ecache) ==
    IF batch = <<>> THEN <<>>
    ELSE PostSimilarities(Head(batch), ecache)
            \o BatchSimilarities(Tail(batch), ecache)

\* a pair whose smaller entity set is empty: overlap divides by zero
DividesByZero(batch, ecache) ==
    \E p \in Range(batch) : \E rp \in Candidates(p, ecache) :
        Overlap(EntitySet(p), EntitySet(rp))[2] = 0

\* ----------------------------------------------------------- Collector
RECURSIVE Pow2(_)
Pow2(n) == IF n <= 0 THEN 1 ELSE 2 * Pow2(n - 1)

DueFeeds_Strict(c) ==
    SetToSeq({f \in cfg.feeds :
        /\ FeedCategory(f) = c
        /\ status[f].active
        /\ status[f].update_datetime < now - Pow2(status[f].update_frequency)})

\* get_due_feeds: the active feeds of the category whose interval has
\* passed, by Status.id
DueFeeds(c) ==
    SetToSeq({f \in cfg.feeds :
        /\ FeedCategory(f) = c
        /\ status[f].active
        /\ status[f].update_datetime <= now - Pow2(status[f].update_frequency)})

\* get_source_posts: the links of the source's posts inside the archive
SourceLinks(src, archivalOffset) ==
    {posts[p].link : p \in {n \in DOMAIN posts :
        /\ posts[n].published >= archivalOffset
        /\ FeedSource(posts[n].feed) = src}}

\* PostParser raises AttributeError: no title, no link, or no
\* published_parsed that mktime accepts
ParseFails(e) == e.tlen = 0 \/ e.llen = 0 \/ e.date \in {"none", "bad"}

\* PostParser raises something else: mktime cannot represent the date
ParseRaises(e) == e.tlen > 0 /\ e.llen > 0 /\ e.date = "raise"

BadDate_FutureKept(e, collectionOffset) == e.published < collectionOffset

\* process_posts drops an entry dated after now or before the collection
\* offset
BadDate(e, collectionOffset) ==
    e.published > now \/ e.published < collectionOffset

TooLong(e) == e.tlen > MAX_LENGTH \/ e.llen > MAX_LENGTH

TitleLength_Feed(e) == e.tlen

\* the title a Post is built with: og.title when the page gives one
TitleLength(e) == IF e.og > 0 THEN e.og ELSE e.tlen

\* the filters of process_posts, in their order
Dropped(e, collectionOffset, linkUrls) ==
    \/ ParseFails(e)
    \/ BadDate(e, collectionOffset)
    \/ TooLong(e)
    \/ e.link \in linkUrls

\* the frequency process_feeds stores after a poll
NewFrequency_Unclamped(freq, newPostCount) ==
    IF newPostCount > 0 THEN freq - 1 ELSE freq + 1

NewFrequency_Reversed(freq, newPostCount) ==
    LET moved == IF newPostCount > 0 THEN freq + 1 ELSE freq - 1
    IN IF moved < MIN_UPDATE_FREQ THEN MIN_UPDATE_FREQ
       ELSE IF moved > MAX_UPDATE_FREQ THEN MAX_UPDATE_FREQ
       ELSE moved

NewFrequency_Stuck(freq, newPostCount) ==
    LET moved == IF newPostCount > 0 THEN freq - 1 ELSE freq
    IN IF moved < MIN_UPDATE_FREQ THEN MIN_UPDATE_FREQ
       ELSE IF moved > MAX_UPDATE_FREQ THEN MAX_UPDATE_FREQ
       ELSE moved

NewFrequency(freq, newPostCount) ==
    LET moved == IF newPostCount > 0 THEN freq - 1 ELSE freq + 1
    IN IF moved < MIN_UPDATE_FREQ THEN MIN_UPDATE_FREQ
       ELSE IF moved > MAX_UPDATE_FREQ THEN MAX_UPDATE_FREQ
       ELSE moved

HasPending(job) ==
    CASE job = "CTR" -> DuePosts \cup ExpiredPosts # {}
      [] job = "Processor" -> entityQueue # {}
      [] job = "EntityExtractor" -> entityQueue # {}
      [] job = "Relater" -> similarityQueue # {}
      [] job = "Collector" -> \E n \in DOMAIN Categories : DueFeeds(Categories[n]) # <<>>
      [] OTHER -> FALSE

\* where run() goes once the lock prologue is over
AfterPrologue(job) ==
    CASE job = "Processor" -> "proc_fetch"
      [] job = "EntityExtractor" -> "ext_fetch"
      [] OTHER -> "create"

AfterCreate(job) ==
    CASE job = "CTR" -> "ctr_due"
      [] job = "Processor" -> "proc_batch"
      [] job = "EntityExtractor" -> "ext_recheck"
      [] job = "Relater" -> "rel_count"
      [] job = "Collector" -> "col_cat"
      [] OTHER -> "release"

\* the batch loop goes on: the next slice of the due feeds, or of the
\* enqueued posts
LoopGo(i) ==
    IF JobOf(i) = "EntityExtractor"
    THEN /\ loc' = [loc EXCEPT ![i].batch = Take(loc[i].q, EXTRACT_BATCH_SIZE),
                               ![i].q = Drop(loc[i].q, EXTRACT_BATCH_SIZE),
                               ![i].mark = Len(posts)]
         /\ Goto(i, "ext_batch")
    ELSE /\ loc' = [loc EXCEPT ![i].batch = Take(loc[i].q, COLLECT_BATCH_SIZE),
                               ![i].q = Drop(loc[i].q, COLLECT_BATCH_SIZE),
                               ![i].fin = <<>>,
                               ![i].mark = Len(posts)]
         /\ Goto(i, "col_submit")

\* the batch loop is left: the Collector goes on to the next category, the
\* EntityExtractor to its closing lock.remove()
LoopBreak(i) ==
    IF JobOf(i) = "EntityExtractor"
    THEN /\ loc' = [loc EXCEPT ![i].q = <<>>]
         /\ Goto(i, "release")
    ELSE /\ loc' = [loc EXCEPT ![i].cats = Tail(@), ![i].q = <<>>]
         /\ Goto(i, "col_cat")

\* the history after a lock re-check: cut tells that it broke the batch loop
\* of an EntityExtractor
Checked(i, broke) ==
    hist' = Others(i, [hist[i] EXCEPT
                !.cut = @ \/ (broke /\ JobOf(i) = "EntityExtractor")])

\* ------------------------------------------------------- the lock prologue
\* The scheduler starts an invocation; run() asks is_locked().
Run(i) ==
    /\ pc[i] \in Terminal
    /\ JobOf(i) \in Jobs
    /\ hist' = Others(i, [HistInit EXCEPT
                    !.startLock = LockState(KindOf(i), LockTimeout(JobOf(i))),
                    !.hadWork = HasPending(JobOf(i)),
                    !.queued = entityQueue,
                    !.solo = TRUE])
    /\ loc' = [loc EXCEPT ![i] = [LocInit EXCEPT
                    !.colOff = IF JobOf(i) = "Collector" THEN now - NDAYS * DAY ELSE 0,
                    !.arcOff = IF JobOf(i) = "Collector" THEN now - (NDAYS + 1) * DAY
                               ELSE 0,
                    !.cats = Categories]]
    /\ threads' = [threads EXCEPT ![i] = [f \in Feeds |-> ThreadInit]]
    /\ cache' = [cache EXCEPT ![i] = [s \in DOMAIN cache[i] |-> {}]]
    /\ IF IsLocked(KindOf(i))
       THEN Goto(i, "exp_count")
       ELSE Goto(i, AfterPrologue(JobOf(i)))
    /\ UNCHANGED <<status, feedData, cfg, now, crashes, joblock, tables>>

\* is_expired(): its own is_locked()
ExpiredCount(i) ==
    /\ pc[i] = "exp_count"
    /\ Keep(i)
    /\ IF IsLocked(KindOf(i))
       THEN Goto(i, "exp_row") /\ UNCHANGED loc
       ELSE IF loc[i].ctx = "acquire"
            THEN Goto(i, "skipped") /\ UNCHANGED loc
            ELSE LoopGo(i)
    /\ UNCHANGED <<coll, cfg, now, crashes, joblock, tables>>

\* is_expired(): the record's age
ExpiredRow(i) ==
    /\ pc[i] = "exp_row"
    /\ IF LockRows(KindOf(i)) = {}
       THEN Raise(i, "AttributeError") /\ UNCHANGED loc
       ELSE /\ Checked(i, /\ loc[i].ctx = "loop"
                           /\ RowExpired(First(KindOf(i)), LockTimeout(JobOf(i))))
            /\ IF RowExpired(First(KindOf(i)), LockTimeout(JobOf(i)))
               THEN IF loc[i].ctx = "acquire"
                    THEN Goto(i, "remove_stale") /\ UNCHANGED loc
                    ELSE LoopBreak(i)
               ELSE IF loc[i].ctx = "acquire"
                    THEN Goto(i, "skipped") /\ UNCHANGED loc
                    ELSE LoopGo(i)
    /\ UNCHANGED <<coll, cfg, now, crashes, joblock, tables>>

\* lock.remove() of a record found expired
RemoveStale(i) ==
    /\ pc[i] = "remove_stale"
    /\ IF LockRows(KindOf(i)) = {}
       THEN /\ Raise(i, "AttributeError")
            /\ UNCHANGED joblock
       ELSE /\ joblock' = joblock \ {First(KindOf(i))}
            /\ hist' = Others(i, [hist[i] EXCEPT !.cleared = TRUE])
            /\ Goto(i, AfterPrologue(JobOf(i)))
    /\ UNCHANGED <<coll, cfg, now, crashes, tables, loc>>

\* lock.create()
Create(i) ==
    /\ pc[i] = "create"
    /\ IF JobLockInsertOk(KindOf(i))
       THEN /\ joblock' = joblock \cup {JobLockRow(KindOf(i), i)}
            /\ hist' = Others(i, [hist[i] EXCEPT !.acquired = TRUE, !.at = now])
            /\ Goto(i, AfterCreate(JobOf(i)))
       ELSE /\ Raise(i, "IntegrityError")
            /\ UNCHANGED joblock
    /\ UNCHANGED <<coll, cfg, now, crashes, tables, loc>>

\* the closing lock.remove()
Release(i) ==
    /\ pc[i] = "release"
    /\ IF LockRows(KindOf(i)) = {}
       THEN /\ Raise(i, "AttributeError")
            /\ UNCHANGED joblock
       ELSE /\ joblock' = joblock \ {First(KindOf(i))}
            /\ Keep(i)
            /\ Goto(i, "done")
    /\ loc' = [loc EXCEPT ![i] = LocInit]
    /\ UNCHANGED <<coll, cfg, now, crashes, tables>>

\* ------------------------------------------------------------- CTR.run
CtrDue(i) ==
    /\ pc[i] = "ctr_due"
    /\ loc' = [loc EXCEPT ![i].q = SetToSeq(DuePosts)]
    /\ Goto(i, "ctr_upd")
    /\ Keep(i)
    /\ UNCHANGED <<coll, cfg, now, crashes, joblock, tables>>

CtrUpdate(i) ==
    /\ pc[i] = "ctr_upd"
    /\ IF loc[i].q = <<>>
       THEN /\ loc' = [loc EXCEPT ![i].q = SetToSeq(ExpiredPosts)]
            /\ Goto(i, "ctr_zero")
            /\ hist' = Others(i, [hist[i] EXCEPT !.expAt = now])
            /\ UNCHANGED postActions
       ELSE LET p == Head(loc[i].q)
                a == postActions[p]
            IN IF a.impressions = 0
               THEN /\ Raise(i, "ZeroDivisionError")
                    /\ UNCHANGED <<postActions, loc>>
               ELSE /\ postActions' = [postActions EXCEPT
                                    ![p].ctr = Ratio(a.clicks, a.impressions)]
                    /\ loc' = [loc EXCEPT ![i].q = Tail(@)]
                    /\ hist' = Others(i, [hist[i] EXCEPT !.worked = TRUE])
                    /\ UNCHANGED pc
    /\ UNCHANGED <<coll, cfg, now, crashes, joblock, posts, entityQueue, similarityQueue,
                   entities, similarities>>

CtrZero(i) ==
    /\ pc[i] = "ctr_zero"
    /\ IF loc[i].q = <<>>
       THEN /\ Goto(i, "release")
            /\ Keep(i)
            /\ UNCHANGED <<postActions, loc>>
       ELSE LET p == Head(loc[i].q)
            IN /\ postActions' = [postActions EXCEPT ![p].ctr = 0]
               /\ loc' = [loc EXCEPT ![i].q = Tail(@)]
               /\ hist' = Others(i, [hist[i] EXCEPT !.worked = TRUE])
               /\ UNCHANGED pc
    /\ UNCHANGED <<coll, cfg, now, crashes, joblock, posts, entityQueue, similarityQueue,
                   entities, similarities>>

\* ------------------------------------------------------- Processor.run
\* get_enqueued_posts, before the lock is created
ProcFetch(i) ==
    /\ pc[i] = "proc_fetch"
    /\ loc' = [loc EXCEPT ![i].q = SetToSeq(entityQueue)]
    /\ IF entityQueue = {}
       THEN /\ Goto(i, "nowork")
            /\ hist' = Others(i, [hist[i] EXCEPT !.at = now])
       ELSE /\ Goto(i, "create")
            /\ hist' = Others(i, [hist[i] EXCEPT !.fetched = entityQueue])
    /\ UNCHANGED <<coll, cfg, now, crashes, joblock, tables>>

SimilarityInsertOk_Always(batch) == TRUE

\* similarity_queue.post_id is declared unique: the commit of a batch is
\* refused when a post it queues for relation has a row there already
SimilarityInsertOk(batch) == WithEntities(batch) \cap similarityQueue = {}

\* process_batch and its commit
ProcBatch(i) ==
    /\ pc[i] = "proc_batch"
    /\ IF loc[i].q = <<>>
       THEN /\ Goto(i, "release")
            /\ Keep(i)
            /\ UNCHANGED <<tables, loc>>
       ELSE LET batch == Take(loc[i].q, PROCESS_BATCH_SIZE)
            IN IF ~SimilarityInsertOk(batch)
               THEN /\ Goto(i, "proc_unlock")
                    /\ hist' = Others(i, [hist[i] EXCEPT !.err = "IntegrityError"])
                    /\ UNCHANGED <<tables, loc>>
               ELSE /\ entities' = entities \o BatchEntities(batch)
                    /\ similarityQueue' = similarityQueue \cup WithEntities(batch)
                    /\ entityQueue' = entityQueue \ Dequeued(batch)
                    /\ loc' = [loc EXCEPT ![i].q = Drop(@, PROCESS_BATCH_SIZE)]
                    /\ hist' = Others(i, [hist[i] EXCEPT !.worked = TRUE,
                                                         !.batches = @ + 1])
                    /\ UNCHANGED <<pc, posts, postActions, similarities>>
    /\ UNCHANGED <<coll, cfg, now, crashes, joblock>>

\* ------------------------------------------------- EntityExtractor.run
\* get_enqueued_posts, before the lock is created: the newest
\* PER_RUN_LIMIT queue rows, which are numbered as their posts are
ExtFetch(i) ==
    /\ pc[i] = "ext_fetch"
    /\ LET enqueued == NewestFirst(entityQueue, PER_RUN_LIMIT)
       IN /\ loc' = [loc EXCEPT ![i].q = enqueued]
          /\ IF enqueued = <<>>
             THEN /\ Goto(i, "nowork")
                  /\ hist' = Others(i, [hist[i] EXCEPT !.at = now])
             ELSE /\ Goto(i, "create")
                  /\ hist' = Others(i, [hist[i] EXCEPT !.fetched = Range(enqueued)])
    /\ UNCHANGED <<coll, cfg, now, crashes, joblock, tables>>

\* while start < len(enqueued_posts): if not is_locked() or is_expired():
\* break
ExtRecheck(i) ==
    /\ pc[i] = "ext_recheck"
    /\ IF loc[i].q = <<>> \/ ~IsLocked(KindOf(i))
       THEN LoopBreak(i)
       ELSE /\ loc' = [loc EXCEPT ![i].ctx = "loop"]
            /\ Goto(i, "exp_count")
    /\ Checked(i, loc[i].q # <<>> /\ ~IsLocked(KindOf(i)))
    /\ UNCHANGED <<coll, cfg, now, crashes, joblock, tables>>

\* process_batch and its commit, which the database may refuse: rollback
ExtBatch(i) ==
    /\ pc[i] = "ext_batch"
    /\ \/ /\ entities' = entities \o BatchSpans(loc[i].batch)
          /\ entityQueue' = entityQueue \ Dequeued(loc[i].batch)
          /\ loc' = [loc EXCEPT ![i].batch = <<>>, ![i].ctx = "acquire"]
          /\ hist' = Others(i, [hist[i] EXCEPT !.worked = TRUE, !.batches = @ + 1])
          /\ Goto(i, "ext_recheck")
          /\ UNCHANGED <<posts, postActions, similarityQueue, similarities, crashes>>
       \/ /\ crashes < MaxCrashes
          /\ crashes' = crashes + 1
          /\ Goto(i, "ext_unlock")
          /\ hist' = Others(i, [hist[i] EXCEPT !.err = "OperationalError"])
          /\ UNCHANGED <<tables, loc>>
    /\ UNCHANGED <<coll, cfg, now, joblock>>

Flushed_First(batch) == BatchSpans(Take(batch, 1))

\* the Entity rows of a batch in the store after extract() has raised in
\* it: none, the rows stand in a session that is never committed
Flushed(batch) == <<>>

\* extract() raises on a post of the batch: nothing catches it in
\* process_batch or in run(), the invocation ends with its lock in place
ExtractRaises(i) ==
    /\ pc[i] \in {"proc_batch", "ext_batch"}
    /\ LET batch == IF pc[i] = "proc_batch"
                    THEN Take(loc[i].q, PROCESS_BATCH_SIZE) ELSE loc[i].batch
       IN /\ \E p \in Range(batch) : ~NoDesc(posts[p].text)
          /\ entities' = entities \o Flushed(batch)
    /\ crashes < MaxCrashes
    /\ crashes' = crashes + 1
    /\ Raise(i, "ValueError")
    /\ loc' = [loc EXCEPT ![i] = LocInit]
    /\ UNCHANGED <<coll, cfg, now, joblock, posts, postActions, entityQueue,
                   similarityQueue, similarities>>

\* the except clause after a failed commit: lock.remove(), then raise
FailUnlock(i) ==
    /\ pc[i] \in {"proc_unlock", "ext_unlock", "rel_unlock"}
    /\ IF LockRows(KindOf(i)) = {}
       THEN /\ Raise(i, "AttributeError")
            /\ UNCHANGED joblock
       ELSE /\ joblock' = joblock \ {First(KindOf(i))}
            /\ Keep(i)
            /\ Goto(i, "failed")
    /\ UNCHANGED <<coll, cfg, now, crashes, tables, loc>>

\* --------------------------------------------------------- Relater.run
\* SimilarityProcessQueue.query.count(), after the lock is created
RelCount(i) ==
    /\ pc[i] = "rel_count"
    /\ IF similarityQueue = {}
       THEN /\ Goto(i, "done")
            /\ UNCHANGED loc
       ELSE /\ Goto(i, "rel_cat")
            /\ loc' = [loc EXCEPT ![i].cats = Categories]
    /\ Keep(i)
    /\ UNCHANGED <<coll, cfg, now, crashes, joblock, tables>>

\* the next category: get_enqueued_posts and set_entity_cache
RelCat(i) ==
    /\ pc[i] = "rel_cat"
    /\ IF loc[i].cats = <<>>
       THEN /\ Goto(i, "release")
            /\ UNCHANGED loc
       ELSE LET c == Head(loc[i].cats)
            IN IF EnqueuedPosts(c) = {}
               THEN /\ loc' = [loc EXCEPT ![i].cats = Tail(@)]
                    /\ UNCHANGED pc
               ELSE /\ loc' = [loc EXCEPT ![i].q = SetToSeq(EnqueuedPosts(c)),
                                          ![i].ecache = EntityCache(c)]
                    /\ Goto(i, "rel_batch")
    /\ Keep(i)
    /\ UNCHANGED <<coll, cfg, now, crashes, joblock, tables>>

\* process_batch and its commit, which the database may refuse: rollback
RelBatch(i) ==
    /\ pc[i] = "rel_batch"
    /\ IF loc[i].q = <<>>
       THEN /\ loc' = [loc EXCEPT ![i].cats = Tail(@), ![i].ecache = {}]
            /\ Goto(i, "rel_cat")
            /\ Keep(i)
            /\ UNCHANGED <<tables, crashes>>
       ELSE LET batch == Take(loc[i].q, RELATE_BATCH_SIZE)
            IN \/ /\ Raise(i, "ZeroDivisionError")
                  /\ UNCHANGED <<tables, loc, crashes>>
                  /\ DividesByZero(batch, loc[i].ecache)
               \/ /\ loc' = [loc EXCEPT ![i].q = Drop(@, RELATE_BATCH_SIZE)]
                  /\ hist' = Others(i, [hist[i] EXCEPT !.worked = TRUE,
                                                       !.batches = @ + 1])
                  /\ UNCHANGED <<pc, posts, postActions, entityQueue, entities, crashes>>
                  /\ similarityQueue' = similarityQueue \ Dequeued(batch)
                  /\ ~DividesByZero(batch, loc[i].ecache)
                  /\ similarities' = similarities \o BatchSimilarities(batch, loc[i].ecache)
               \/ /\ crashes < MaxCrashes
                  /\ crashes' = crashes + 1
                  /\ Goto(i, "rel_unlock")
                  /\ hist' = Others(i, [hist[i] EXCEPT !.err = "OperationalError"])
                  /\ UNCHANGED <<tables, loc>>
                  /\ ~DividesByZero(batch, loc[i].ecache)
    /\ UNCHANGED <<coll, cfg, now, joblock>>

\* ------------------------------------------------------- Collector.run
\* the next category and its due feeds
ColCat(i) ==
    /\ pc[i] = "col_cat"
    /\ IF loc[i].cats = <<>>
       THEN /\ Goto(i, "release")
            /\ UNCHANGED loc
       ELSE LET due == DueFeeds(Head(loc[i].cats))
            IN IF due = <<>>
               THEN /\ loc' = [loc EXCEPT ![i].cats = Tail(@)]
                    /\ UNCHANGED pc
               ELSE /\ loc' = [loc EXCEPT ![i].q = due]
                    /\ Goto(i, "col_recheck")
    /\ Keep(i)
    /\ UNCHANGED <<coll, cfg, now, crashes, joblock, tables>>

\* while start < len(due_feeds): if not is_locked() or is_expired(): break
ColRecheck(i) ==
    /\ pc[i] = "col_recheck"
    /\ IF loc[i].q = <<>> \/ ~IsLocked(KindOf(i))
       THEN LoopBreak(i)
       ELSE /\ loc' = [loc EXCEPT ![i].ctx = "loop"]
            /\ Goto(i, "exp_count")
    /\ Checked(i, loc[i].q # <<>> /\ ~IsLocked(KindOf(i)))
    /\ UNCHANGED <<coll, cfg, now, crashes, joblock, tables>>

\* process_feeds: get_source_posts for the next feed of the batch, then
\* its process_posts is handed to the pool
ColSubmit(i) ==
    /\ pc[i] = "col_submit"
    /\ loc[i].batch # <<>>
    /\ LET f == Head(loc[i].batch)
           src == FeedSource(f)
       IN /\ cache' = [cache EXCEPT ![i][src] = @ \cup SourceLinks(src, loc[i].arcOff)]
          /\ threads' = [threads EXCEPT ![i][f] = [ThreadInit EXCEPT !.st = "parse"]]
          /\ loc' = [loc EXCEPT ![i].batch = Tail(@)]
          /\ hist' = Others(i, [hist[i] EXCEPT !.tried = @ \cup {f}])
    /\ UNCHANGED <<status, feedData, cfg, now, crashes, joblock, tables, pc>>

\* a worker: feedparser.parse(feed.url)
ThreadParse(i, f) ==
    /\ Active(i)
    /\ threads[i][f].st = "parse"
    /\ threads' = [threads EXCEPT ![i][f].st = "check",
                                  ![i][f].entries = feedData[f]]
    /\ Keep(i)
    /\ UNCHANGED <<status, feedData, cache, cfg, now, crashes, joblock, tables, pc, loc>>

\* a worker: the next entry makes the parser raise, is dropped, or is
\* found new and sent for its OpenGraph data
ThreadCheck(i, f) ==
    /\ Active(i)
    /\ threads[i][f].st = "check"
    /\ IF threads[i][f].entries = <<>>
       THEN /\ threads' = [threads EXCEPT ![i][f].st = "done"]
            /\ loc' = [loc EXCEPT ![i].fin = Append(@, f)]
       ELSE LET e == Head(threads[i][f].entries)
            IN /\ IF ParseRaises(e)
                  THEN threads' = [threads EXCEPT ![i][f].st = "raised"]
                  ELSE IF Dropped(e, loc[i].colOff, cache[i][FeedSource(f)])
                  THEN threads' = [threads EXCEPT ![i][f].entries = Tail(@)]
                  ELSE threads' = [threads EXCEPT ![i][f].st = "og"]
               /\ UNCHANGED loc
    /\ Keep(i)
    /\ UNCHANGED <<status, feedData, cache, cfg, now, crashes, joblock, tables, pc>>

\* a worker: link_urls.add(post.link) and posts.append(p)
ThreadAdd(i, f) ==
    /\ Active(i)
    /\ threads[i][f].st = "og"
    /\ LET e == Head(threads[i][f].entries)
       IN /\ cache' = [cache EXCEPT ![i][FeedSource(f)] = @ \cup {e.link}]
          /\ threads' = [threads EXCEPT ![i][f].st = "check",
                                        ![i][f].entries = Tail(@),
                                        ![i][f].kept = Append(@, e)]
    /\ Keep(i)
    /\ UNCHANGED <<status, feedData, cfg, now, crashes, joblock, tables, pc, loc>>

\* every future has completed: future.result() raises what its worker
\* raised, else the next (feed, posts) is taken up for saving
ColSaveNext(i) ==
    /\ pc[i] \in {"col_submit", "col_save"}
    /\ loc[i].batch = <<>>
    /\ \A f \in Feeds : threads[i][f].st \in {"off", "done", "raised"}
    /\ IF \E f \in Feeds : threads[i][f].st = "raised"
       THEN /\ Raise(i, "OverflowError")
            /\ loc' = [loc EXCEPT ![i] = LocInit]
            /\ threads' = [threads EXCEPT ![i] = [f \in Feeds |-> ThreadInit]]
       ELSE /\ Keep(i)
            /\ IF loc[i].fin = <<>>
               THEN /\ Goto(i, "col_recheck")
                    /\ loc' = [loc EXCEPT ![i].ctx = "acquire"]
                    /\ threads' = [threads EXCEPT ![i] = [f \in Feeds |-> ThreadInit]]
               ELSE LET f == Head(loc[i].fin)
                    IN /\ loc' = [loc EXCEPT ![i].fin = Tail(@),
                                             ![i].cur = f,
                                             ![i].saving = threads[i][f].kept,
                                             ![i].newCount = Len(threads[i][f].kept),
                                             ![i].base = Len(posts)]
                       /\ Goto(i, "col_save_post")
                       /\ UNCHANGED threads
    /\ UNCHANGED <<status, feedData, cache, cfg, now, crashes, joblock, tables>>

\* p.save(): the commit fails when the title taken from the page's
\* OpenGraph data does not fit posts.title, and nothing catches that
ColSavePost(i) ==
    /\ pc[i] = "col_save_post"
    /\ IF loc[i].saving = <<>>
       THEN /\ Goto(i, "col_status")
            /\ Keep(i)
            /\ UNCHANGED <<posts, loc, threads>>
       ELSE LET e == Head(loc[i].saving)
            IN IF TitleLength(e) > MAX_LENGTH
               THEN /\ Raise(i, "DataError")
                    /\ loc' = [loc EXCEPT ![i] = LocInit]
                    /\ threads' = [threads EXCEPT ![i] = [f \in Feeds |-> ThreadInit]]
                    /\ UNCHANGED posts
               ELSE /\ posts' = Append(posts, [feed |-> loc[i].cur, link |-> e.link,
                                               published |-> e.published, text |-> e.text])
                    /\ loc' = [loc EXCEPT ![i].pid = Len(posts) + 1]
                    /\ Goto(i, "col_save_action")
                    /\ Keep(i)
                    /\ UNCHANGED threads
    /\ UNCHANGED <<status, feedData, cache, cfg, now, crashes, joblock, postActions,
                   entityQueue, similarityQueue, entities, similarities>>

\* PostAction.create(post_id=p.id, clicks=0, impressions=0, ctr=0)
ColSaveAction(i) ==
    /\ pc[i] = "col_save_action"
    /\ postActions' = postActions @@ (loc[i].pid :> [clicks |-> 0, impressions |-> 0, ctr |-> 0])
    /\ Goto(i, "col_save_queue")
    /\ Keep(i)
    /\ UNCHANGED <<coll, cfg, now, crashes, joblock, posts, entityQueue,
                   similarityQueue, entities, similarities, loc>>

\* EntityProcessQueue.create(post_id=p.id)
ColSaveQueue(i) ==
    /\ pc[i] = "col_save_queue"
    /\ entityQueue' = entityQueue \cup {loc[i].pid}
    /\ loc' = [loc EXCEPT ![i].saving = Tail(@)]
    /\ Goto(i, "col_save_post")
    /\ Keep(i)
    /\ UNCHANGED <<coll, cfg, now, crashes, joblock, posts, postActions,
                   similarityQueue, entities, similarities>>

\* feed.status.update(update_frequency=..., update_datetime=now())
ColStatus(i) ==
    /\ pc[i] = "col_status"
    /\ LET f == loc[i].cur
       IN status' = [status EXCEPT
                ![f].update_frequency = NewFrequency(@, loc[i].newCount),
                ![f].update_datetime = now,
                ![f].was = status[f].update_frequency,
                ![f].got = Len(posts) - loc[i].base,
                ![f].empties = IF loc[i].newCount = 0
                               THEN Min(@ + 1, MaxEmptyPolls) ELSE 0]
    /\ Goto(i, "col_save")
    /\ hist' = Others(i, [hist[i] EXCEPT !.worked = TRUE])
    /\ UNCHANGED <<feedData, threads, cache, cfg, now, crashes, joblock, tables, loc>>

\* ------------------------------------------------------------ environment
\* Time passes.  Under contention it passes at any point of an invocation;
\* alone, where one tick is the longest polling interval, between invocations.
Tick ==
    /\ now + cfg.dt <= cfg.ticks * cfg.dt
    /\ Contended \/ \A i \in Slots : ~Active(i)
    /\ now' = now + cfg.dt
    /\ hist' = [j \in Slots |->
                  IF Active(j) THEN [hist[j] EXCEPT !.solo = FALSE] ELSE hist[j]]
    /\ UNCHANGED <<coll, cfg, crashes, joblock, tables, pc, loc>>

\* the worker running the invocation is killed while it holds the lock (a
\* kill before lock.create() leaves no record behind)
Crash(i) ==
    /\ Active(i)
    /\ hist[i].acquired
    /\ Contended
    /\ crashes < MaxCrashes
    /\ crashes' = crashes + 1
    /\ Raise(i, "Killed")
    /\ loc' = [loc EXCEPT ![i] = LocInit]
    /\ threads' = [threads EXCEPT ![i] = [f \in Feeds |-> ThreadInit]]
    /\ UNCHANGED <<status, feedData, cache, cfg, now, joblock, tables>>

\* ----------------------------------------------------------------- spec
\* empties counts the polls in a row that brought nothing new; was is the
\* frequency the last poll found stored and got the number of posts it
\* saved (-1: never polled)
Status(t, e) ==
    [update_datetime |-> t, update_frequency |-> e, active |-> TRUE,
     empties |-> 0, was |-> e, got |-> 0 - 1]

NoTables ==
    [posts |-> <<>>, actions |-> <<>>, entityQueue |-> {}, similarityQueue |-> {},
     entities |-> <<>>, similarities |-> <<>>,
     status |-> [f \in Feeds |-> Status(0, MIN_UPDATE_FREQ)]]

InitFrequencies == {0, 3, 4, 6, 8}

\* an entry of a parsed feed: tlen and llen are the lengths of its title
\* and link (0: missing), date tells what its published_parsed is, og is
\* the length of the og:title of the page it links to (0: none)
Entry(l, t) ==
    [link |-> l, published |-> t, text |-> "t1", tlen |-> 20, llen |-> 20,
     date |-> "ok", og |-> 0]

\* the entries process_posts has a filter for, and one it keeps
Oddities ==
    <<[Entry("c", 0) EXCEPT !.tlen = 0],
      [Entry("c", 0) EXCEPT !.llen = 0],
      [Entry("c", 0) EXCEPT !.date = "none"],
      [Entry("c", 0) EXCEPT !.date = "bad"],
      Entry("c", 10 * DAY),
      Entry("c", 0 - 2 * DAY),
      [Entry("c", 0) EXCEPT !.tlen = MAX_LENGTH + 1],
      [Entry("c", 0) EXCEPT !.llen = MAX_LENGTH + 1],
      [Entry("a", 0) EXCEPT !.tlen = MAX_LENGTH, !.llen = MAX_LENGTH],
      Entry("a", 0)>>

\* what the feeds serve: under contention one feed, alone two feeds of one
\* source
FeedContents(solo) ==
    IF solo
    THEN {<< <<>>, <<>> >>,
          << <<Entry("a", 0)>>, <<Entry("a", 0)>> >>,
          << <<Entry("a", 0), Entry("a", 0)>>, <<>> >>,
          << <<Entry("a", 0), Entry("b", 0)>>, <<Entry("b", 0)>> >>,
          << Oddities, <<>> >>,
          << <<Entry("a", 0)>>, <<[Entry("b", 0) EXCEPT !.date = "raise"]>> >>,
          << <<Entry("a", 0), [Entry("b", 0) EXCEPT !.og = MAX_LENGTH + 1]>>, <<>> >>}
    ELSE {<< <<>>, <<>> >>}

\* how long ago the second feed was polled: half its interval beside a
\* first feed that was never polled, else as long ago as the first
SecondAge(e) == IF e = 0 THEN Pow2(MIN_UPDATE_FREQ - 1) ELSE Pow2(e)

Post(f, l, t, x) == [feed |-> f, link |-> l, published |-> t, text |-> x]
Action(c, n, r) == [clicks |-> c, impressions |-> n, ctr |-> r]

\* what the store holds when the deployment is first looked at
Fixtures(job) ==
    CASE job = "CTR" ->
            {[NoTables EXCEPT
                !.posts = <<Post(1, "a", 0, "t1"), Post(1, "b", 0 - 2 * DAY, "t2"),
                            Post(1, "c", ANALYZE_TIMEOUT - DAY, "t3"),
                            Post(1, "d", 0, "t4"), Post(1, "e", 0, "t5")>>,
                !.actions = <<Action(1, 2, 0), Action(2, 3, 667), Action(1, 4, 0),
                              Action(2, 0, 0), Action(0, 3, 0)>>]}
      [] job \in {"Processor", "EntityExtractor"} ->
            {[NoTables EXCEPT
                !.posts = <<Post(1, "a", 0, "t1"), Post(2, "b", 0, "none"),
                            Post(1, "c", 0, "t5")>>,
                !.actions = <<Action(0, 0, 0), Action(0, 0, 0), Action(0, 0, 0)>>,
                !.entityQueue = q] : q \in {{}, {1, 2, 3}}}
      [] job = "Relater" ->
            {[NoTables EXCEPT
                !.posts = <<Post(1, "a", 0, "t1"), Post(1, "b", 0, "t2"),
                            Post(1, "c", 0, "t3"), Post(1, "d", 0, "t4"),
                            Post(1, "e", 0, "none")>>,
                !.actions = <<Action(0, 0, 0), Action(0, 0, 0), Action(0, 0, 0),
                              Action(0, 0, 0), Action(0, 0, 0)>>,
                !.entities = TextEntities(1, "t1") \o TextEntities(2, "t2")
                                \o TextEntities(3, "t3") \o TextEntities(4, "t4"),
                !.similarityQueue = q] : q \in {{}, {1, 2, 5}}}
      [] job = "Collector" ->
            {[NoTables EXCEPT
                !.status = [f \in Feeds |->
                    IF f = 1 THEN Status(0 - Pow2(e), e)
                    ELSE Status(0 - SecondAge(e), MIN_UPDATE_FREQ)]] :
             e \in InitFrequencies}
      [] OTHER -> {NoTables}

Init ==
    /\ cfg \in Scenarios
    /\ now = 0
    /\ crashes = 0
    /\ joblock = {}
    /\ \E fx \in Fixtures(cfg.jobs[1]) :
        /\ Contended => fx.status[1].update_frequency = MIN_UPDATE_FREQ
        /\ posts = fx.posts
        /\ postActions = fx.actions
        /\ entityQueue = fx.entityQueue
        /\ similarityQueue = fx.similarityQueue
        /\ entities = fx.entities
        /\ similarities = fx.similarities
        /\ status = fx.status
    /\ feedData \in (IF cfg.jobs[1] = "Collector"
                     THEN FeedContents(cfg.jobs[2] = "off")
                     ELSE {<< <<>>, <<>> >>})
    /\ threads = [i \in Slots |-> [f \in Feeds |-> ThreadInit]]
    /\ cache = [i \in Slots |-> [s \in {1} |-> {}]]
    /\ pc = [i \in Slots |-> "idle"]
    /\ loc = [i \in Slots |-> LocInit]
    /\ hist = [i \in Slots |-> HistInit]

Step(i) ==
    \/ Run(i)
    \/ ExpiredCount(i)
    \/ ExpiredRow(i)
    \/ RemoveStale(i)
    \/ Create(i)
    \/ Release(i)
    \/ CtrDue(i)
    \/ CtrUpdate(i)
    \/ CtrZero(i)
    \/ ProcFetch(i)
    \/ ProcBatch(i)
    \/ ExtFetch(i)
    \/ ExtRecheck(i)
    \/ ExtBatch(i)
    \/ ExtractRaises(i)
    \/ FailUnlock(i)
    \/ RelCount(i)
    \/ RelCat(i)
    \/ RelBatch(i)
    \/ ColCat(i)
    \/ ColRecheck(i)
    \/ ColSubmit(i)
    \/ \E f \in Feeds : ThreadParse(i, f)
    \/ \E f \in Feeds : ThreadCheck(i, f)
    \/ \E f \in Feeds : ThreadAdd(i, f)
    \/ ColSaveNext(i)
    \/ ColSavePost(i)
    \/ ColSaveAction(i)
    \/ ColSaveQueue(i)
    \/ ColStatus(i)

Next ==
    \/ \E i \in Slots : Step(i)
    \/ \E i \in Slots : Crash(i)
    \/ Tick

Spec == Init /\ [][Next]_vars

\* the scheduler keeps starting every job, and a started invocation keeps
\* running unless it is killed
LiveSpec == Init /\ [][Next]_vars /\ \A i \in Slots : WF_vars(Step(i))

\* ---------------------------------------------------------------- claims
\* an invocation between its lock.create() and its return
Holding(i) == Active(i) /\ hist[i].acquired

\* what ends an invocation from outside the lock protocol: the worker is
\* killed, a feed's entry makes the parser raise, the database refuses a
\* commit
Faults == {"Killed", "OverflowError", "OperationalError", "DataError", "ValueError"}

\* an invocation that has returned, or died of its own code's exception,
\* and that no other invocation and no passing of time was interleaved with
Alone(i) ==
    /\ pc[i] \in Terminal \ {"idle"}
    /\ hist[i].err \notin Faults
    /\ hist[i].solo

\* C1: for every job kind, at most one invocation of that kind is between
\* its lock acquisition and its lock release, under any interleaving.
C1_MutualExclusion ==
    \A i, j \in Slots :
        (i # j /\ Holding(i) /\ Holding(j)) => KindOf(i) # KindOf(j)

\* C2: the store holds at most one JobLock record for each job kind.
C2_OneLockPerKind ==
    \A k \in JobKinds : Cardinality(LockRows(k)) <= 1

\* two invocations both passed is_locked() and the second create() was
\* refused
C2_Witness ==
    \E i, j \in Slots :
        /\ pc[i] = "crashed"
        /\ hist[i].err = "IntegrityError"
        /\ hist[i].startLock = "none"
        /\ Holding(j)
        /\ hist[j].startLock = "none"
        /\ Cardinality(LockRows(KindOf(i))) = 1

\* C3: a run that finds work pending and is not interleaved with acquires
\* the lock and works when no record exists, does no work when the record
\* is not older than the timeout, and deletes the record, acquires a fresh
\* one and works when the record is older.
C3_LockProtocol ==
    \A i \in Slots :
        (Alone(i) /\ hist[i].hadWork) =>
            /\ hist[i].startLock = "none" =>
                    pc[i] = "done" /\ hist[i].acquired /\ hist[i].worked
                    /\ ~hist[i].cleared
            /\ hist[i].startLock = "fresh" =>
                    pc[i] = "skipped" /\ ~hist[i].acquired /\ ~hist[i].worked
                    /\ ~hist[i].cleared
            /\ hist[i].startLock = "stale" =>
                    pc[i] = "done" /\ hist[i].cleared /\ hist[i].acquired
                    /\ hist[i].worked

C3_Witness ==
    \E i \in Slots :
        /\ Alone(i) /\ hist[i].hadWork
        /\ hist[i].startLock = "stale"
        /\ pc[i] = "done" /\ hist[i].cleared /\ hist[i].acquired /\ hist[i].worked

\* the step in which slot i, in the lock prologue, reads the age of a record
\* that is not older than its timeout
ReadsFresh(i) ==
    /\ pc[i] = "exp_row"
    /\ loc[i].ctx = "acquire"
    /\ LockState(KindOf(i), LockTimeout(JobOf(i))) = "fresh"
    /\ pc'[i] # pc[i]
    /\ hist'[i].err # "Killed"

\* C4: a run that finds an unexpired lock returns, and writes nothing: the
\* lock record, the two queues, Entity, Similarity, Item, FeedStatus and
\* ItemAction are as they were.
C4_SkipWritesNothing ==
    [][\A i \in Slots :
          ReadsFresh(i) =>
              /\ pc'[i] = "skipped"
              /\ UNCHANGED <<joblock, tables, status>>]_vars

C4_Witness ==
    \E i \in Slots :
        /\ pc[i] = "skipped"
        /\ hist[i].startLock = "fresh"
        /\ LockState(KindOf(i), LockTimeout(JobOf(i))) = "fresh"
        /\ ~hist[i].acquired /\ ~hist[i].worked /\ ~hist[i].cleared

\* C5: whenever run() of any job returns normally after not being skipped,
\* no lock record of that job's kind remains, pending work or not.
C5_NoLockAfterReturn ==
    \A i \in Slots :
        (pc[i] \in {"done", "nowork"} /\ hist[i].solo) =>
            LockRows(KindOf(i)) = {}

\* C6: is_locked() is true exactly when a record of the kind exists;
\* is_expired() is true exactly when a record exists whose timestamp is
\* more than the timeout before now, and false when none exists.
C6_LockPredicates ==
    \A job \in Jobs :
        LET k == Identifier(job)
            timeout == LockTimeout(job)
        IN /\ IsLocked(k) <=> LockRows(k) # {}
           /\ IsExpired(k, timeout) <=>
                  \E r \in LockRows(k) : now - r.lock_datetime > timeout

\* a run has asked is_expired() of a record exactly one timeout old
C6_Witness ==
    \E i \in Slots :
        /\ pc[i] = "skipped"
        /\ \E r \in LockRows(KindOf(i)) :
              now - r.lock_datetime = LockTimeout(JobOf(i))
        /\ ~IsExpired(KindOf(i), LockTimeout(JobOf(i)))

\* a lock record whose creator is no longer between create() and return
Orphan(r) == ~(Active(r.by) /\ hist[r.by].acquired)

StaleOrphanAt(t) ==
    \E r \in joblock :
        /\ r.lock_datetime = t
        /\ Orphan(r)
        /\ now - r.lock_datetime > LockTimeout(JobOf(r.by))

\* the record of time t is gone and an invocation has gone past the lock
\* prologue after that record's timeout ran out
RecoveredAfter(t) ==
    /\ \A r \in joblock : r.lock_datetime # t
    /\ \E i \in Slots :
          /\ JobOf(i) \in Jobs
          /\ hist[i].at > t + LockTimeout(JobOf(i))

\* C7: a record left by an invocation that died holding the lock does not
\* block the job forever: once it is older than the timeout, and the job
\* keeps being scheduled, the record is eventually deleted and a later
\* invocation goes past the lock prologue.
C7_CrashedHolderRecovered ==
    \A n \in 0..MaxLockAges :
        StaleOrphanAt(n * cfg.dt) ~> RecoveredAfter(n * cfg.dt)

\* a holder was killed, and a later invocation found its record stale,
\* deleted it, acquired and worked
C7_Witness ==
    \E i, j \in Slots :
        /\ i # j
        /\ pc[j] = "crashed" /\ hist[j].err = "Killed" /\ hist[j].acquired
        /\ hist[i].startLock = "stale"
        /\ hist[i].cleared /\ hist[i].acquired /\ hist[i].worked
        /\ hist[i].at > hist[j].at + LockTimeout(JobOf(j))

\* C8: after any sequence of Collector runs, no two Items of feeds of the
\* same Source published within the archival window share a link.
C8_NoDuplicateLinks ==
    (\A i \in Slots : ~Active(i)) =>
        \A p, q \in DOMAIN posts :
            (/\ p # q
             /\ FeedSource(posts[p].feed) = FeedSource(posts[q].feed)
             /\ posts[p].published >= now - (NDAYS + 1) * DAY
             /\ posts[q].published >= now - (NDAYS + 1) * DAY)
            => posts[p].link # posts[q].link

Polled(f) == status[f].update_datetime >= 0

\* C9: after every poll of a feed its update_frequency lies between
\* MIN_UPDATE_FREQ and MAX_UPDATE_FREQ, whatever was stored before.
C9_FrequencyClamped ==
    \A f \in Feeds :
        Polled(f) =>
            /\ status[f].update_frequency >= MIN_UPDATE_FREQ
            /\ status[f].update_frequency <= MAX_UPDATE_FREQ

\* a poll that found a frequency above the range stored
C9_Witness ==
    \E f \in Feeds :
        /\ Polled(f)
        /\ status[f].was > MAX_UPDATE_FREQ
        /\ status[f].update_frequency = MAX_UPDATE_FREQ

\* C10: a feed that brought nothing new on 5 polls in a row has
\* update_frequency = MAX_UPDATE_FREQ afterwards.
C10_FiveEmptyPolls ==
    \A f \in Feeds :
        status[f].empties >= 5 => status[f].update_frequency = MAX_UPDATE_FREQ

C10_Witness ==
    \E f \in Feeds :
        /\ status[f].empties = 5
        /\ status[f].update_frequency = MAX_UPDATE_FREQ
        /\ now = 4 * 64

\* the range a stored frequency is brought back into
Clamped(e) ==
    IF e < MIN_UPDATE_FREQ THEN MIN_UPDATE_FREQ
    ELSE IF e > MAX_UPDATE_FREQ THEN MAX_UPDATE_FREQ
    ELSE e

\* C11: a poll that persists at least one new Item lowers the feed's
\* update_frequency by exactly 1, a poll that persists none raises it by
\* exactly 1, and the result is clamped to [MIN_UPDATE_FREQ, MAX_UPDATE_FREQ].
C11_FrequencyStep ==
    \A f \in Feeds :
        /\ status[f].got > 0 =>
              status[f].update_frequency = Clamped(status[f].was - 1)
        /\ status[f].got = 0 =>
              status[f].update_frequency = Clamped(status[f].was + 1)

\* one feed went from 4 to 3 on a poll that saved a post, and one from 3 to
\* 4 on a poll that saved none
C11_Witness ==
    /\ \E f \in Feeds :
          status[f].got > 0 /\ status[f].was = 4 /\ status[f].update_frequency = 3
    /\ \E f \in Feeds :
          status[f].got = 0 /\ status[f].was = 3 /\ status[f].update_frequency = 4

\* C12: get_due_feeds returns exactly the active feeds of the category with
\* now - update_datetime >= 2^update_frequency minutes: a feed polled
\* exactly 2^e minutes ago is due, one polled 2^(e-1) minutes ago is not.
C12_DueFeeds ==
    \A n \in DOMAIN Categories :
        LET c == Categories[n]
            due == Range(DueFeeds(c))
        IN /\ due = {f \in cfg.feeds :
                        /\ FeedCategory(f) = c
                        /\ status[f].active
                        /\ now - status[f].update_datetime
                              >= Pow2(status[f].update_frequency)}
           /\ \A f \in cfg.feeds :
                 (/\ status[f].update_frequency >= 1
                  /\ now - status[f].update_datetime
                        = Pow2(status[f].update_frequency - 1))
                 => f \notin due

\* a run took feed 1, polled exactly 2^e minutes ago, as the one due feed
\* while feed 2 was polled 2^(e-1) minutes ago
C12_Witness ==
    \E i \in Slots :
        /\ pc[i] = "col_recheck"
        /\ loc[i].q = <<1>>
        /\ cfg.feeds = {1, 2}
        /\ now - status[1].update_datetime = Pow2(status[1].update_frequency)
        /\ now - status[2].update_datetime = Pow2(status[2].update_frequency - 1)

\* C13: every due feed whose poll a Collector run attempted has its
\* update_datetime set to the time of that attempt once the run has ended,
\* whether the poll brought new items, none, or raised an error.
C13_AlwaysStamped ==
    \A i \in Slots :
        (pc[i] \in Terminal /\ hist[i].err # "Killed") =>
            \A f \in hist[i].tried : status[f].update_datetime >= hist[i].at

\* C14: in every reachable state, between the steps of a Collector run
\* included, every Item has exactly one zero-initialised ItemAction, and
\* every Item the Collector created has the EntityQueueEntry created with it.
C14_ItemCompanions ==
    \A p \in DOMAIN posts :
        /\ p \in DOMAIN postActions
        /\ JobOf(1) = "Collector" =>
              /\ postActions[p] = Action(0, 0, 0)
              /\ p \in entityQueue

\* what the claim asks of an entry that becomes an Item
Acceptable(e, collectionOffset, dedup) ==
    /\ e.tlen > 0 /\ e.llen > 0 /\ e.date = "ok"
    /\ e.published <= now /\ e.published >= collectionOffset
    /\ e.tlen <= MAX_LENGTH /\ e.llen <= MAX_LENGTH
    /\ e.link \notin dedup

\* C15: the Collector persists an entry as an Item only if it has a title,
\* a link and a parseable published time, is dated neither after now nor
\* before the collection window, has a title and a link of at most 255
\* characters each, and its link is not in the Source's dedup set.
C15_OnlyGoodEntries ==
    [][\A i \in Slots :
          /\ \A f \in Feeds :
                (threads[i][f].st = "check" /\ threads'[i][f].st = "og") =>
                    Acceptable(Head(threads[i][f].entries), loc[i].colOff,
                               cache[i][FeedSource(f)])
          /\ \A f \in Feeds :
                threads'[i][f].kept # threads[i][f].kept =>
                    \/ threads'[i][f].kept = <<>>
                    \/ /\ threads[i][f].st = "og"
                       /\ threads'[i][f].kept =
                            Append(threads[i][f].kept, Head(threads[i][f].entries))
          /\ (pc[i] = "col_save_post" /\ posts' # posts) =>
                \E n \in DOMAIN threads[i][loc[i].cur].kept :
                    LET e == threads[i][loc[i].cur].kept[n]
                    IN /\ Acceptable(e, loc[i].colOff, {})
                       /\ posts' = Append(posts, Post(loc[i].cur, e.link,
                                                      e.published, e.text))]_vars

\* a feed served an entry for every filter, one entry at the length cap
\* and the same link once more: the one at the cap became the only Item
C15_Witness ==
    /\ feedData[1] = Oddities
    /\ pc[1] = "done"
    /\ Len(posts) = 1
    /\ posts[1].link = "a"

\* the number of Similarity rows from a to b
RowCount(a, b) ==
    Cardinality({n \in DOMAIN similarities :
        similarities[n].source_id = a /\ similarities[n].related_id = b})

\* C16: for each unordered pair of items {P, Q} the store holds either no
\* Similarity row or exactly one row P->Q and exactly one row Q->P, also
\* when P and Q are queued in the same pass and each finds the other.
C16_TwoRowsPerPair ==
    \A P, Q \in DOMAIN posts :
        P # Q =>
            \/ RowCount(P, Q) = 0 /\ RowCount(Q, P) = 0
            \/ RowCount(P, Q) = 1 /\ RowCount(Q, P) = 1

\* C17: the Relater never inserts a Similarity row whose source item and
\* related item are the same item.
C17_NoSelfEdge ==
    \A n \in DOMAIN similarities :
        similarities[n].source_id # similarities[n].related_id

\* a run has committed the rows of a post that is in the entity index under
\* its own terms
C17_Witness ==
    \E i \in Slots : \E n \in DOMAIN similarities :
        LET p == similarities[n].source_id
        IN /\ pc[i] = "rel_batch"
           /\ hist[i].worked
           /\ \E x \in loc[i].ecache : x[2] = p /\ x[1] \in EntitySet(p)

\* C18: in every committed state the Similarity relation is symmetric: a
\* row P->Q exists if and only if a row Q->P exists; a refused commit
\* persists neither.
C18_Symmetric ==
    \A P, Q \in DOMAIN posts : RowCount(P, Q) > 0 <=> RowCount(Q, P) > 0

\* one run's commit was refused and left no row; the rows in the store are
\* those of one batch of another run
C18_Witness ==
    \E i, j \in Slots :
        /\ pc[j] = "failed" /\ hist[j].err = "OperationalError"
        /\ pc[i] = "done" /\ hist[i].worked
        /\ Len(similarities) = 6
        /\ RowCount(2, 4) = 1 /\ RowCount(4, 2) = 1

\* the rows a step has added to similarities
NewRows == SubSeq(similarities', Len(similarities) + 1, Len(similarities'))

HasRow(rows, a, b) ==
    \E n \in DOMAIN rows : rows[n].source_id = a /\ rows[n].related_id = b

\* Q is an item of P's category in the recent window that shares a term
\* with P
SharesTerm(P, Q) ==
    /\ PostCategory(Q) = PostCategory(P)
    /\ posts[Q].published >= now - RECENT_DAYS * DAY
    /\ EntitySet(P) \cap EntitySet(Q) # {}

\* C19: for a queued item P and every other item Q of P's category that
\* shares a term with P in the recent-window index, the Relater inserts the
\* edge pair exactly when |E(P) /\ E(Q)| / min(|E(P)|, |E(Q)|) >= 0.75; an
\* item sharing no term with P gets no edge to P.
C19_ThresholdEdges ==
    [][\A i \in Slots :
          (pc[i] = "rel_batch" /\ pc'[i] = "rel_batch" /\ loc'[i].q # loc[i].q) =>
              \A P \in Range(Take(loc[i].q, RELATE_BATCH_SIZE)) :
                  \A Q \in DOMAIN posts \ {P} :
                      IF SharesTerm(P, Q)
                      THEN (HasRow(NewRows, P, Q) /\ HasRow(NewRows, Q, P)) <=>
                              4 * Cardinality(EntitySet(P) \cap EntitySet(Q))
                                >= 3 * Min(Cardinality(EntitySet(P)),
                                           Cardinality(EntitySet(Q)))
                      ELSE ~HasRow(NewRows, P, Q) /\ ~HasRow(NewRows, Q, P)]_vars

\* post 2 was related: post 1 (3 of 3 terms) and post 4 (3 of 4, exactly
\* the threshold) got the edge pair, post 3 (no term) got none; and post 1
\* got none with post 4 (2 of 3)
C19_Witness ==
    /\ similarityQueue = {}
    /\ RowCount(2, 1) > 0 /\ RowCount(1, 2) > 0
    /\ RowCount(2, 4) > 0 /\ RowCount(4, 2) > 0
    /\ RowCount(2, 3) = 0 /\ RowCount(3, 2) = 0
    /\ RowCount(1, 4) = 0 /\ RowCount(4, 1) = 0
    /\ Overlap(EntitySet(2), EntitySet(4)) = <<3, 4>>
    /\ Overlap(EntitySet(1), EntitySet(4)) = <<2, 3>>

\* the laws of overlap for one pair of sets
Lawful(A, B) ==
    /\ Overlap(A, A)[1] = Overlap(A, A)[2]
    /\ Overlap(A, B) = Overlap(B, A)
    /\ 0 <= Overlap(A, B)[1] /\ Overlap(A, B)[1] <= Overlap(A, B)[2]
    /\ (A \subseteq B \/ B \subseteq A) => Overlap(A, B)[1] = Overlap(A, B)[2]

TermSets == SUBSET {"fed", "rate", "hike", "bank"} \ {{}}

OverlapLaws == \A A, B \in TermSets : Lawful(A, B)

\* C20: for all nonempty sets A, B, E: overlap(E, E) = 1, overlap(A, B) =
\* overlap(B, A), 0 <= overlap(A, B) <= 1, and overlap(A, B) = 1 whenever
\* one set contains the other; so for every pair of sets a batch of the
\* Relater is about to score.
C20_OverlapLaws ==
    /\ OverlapLaws
    /\ \A i \in Slots :
          pc[i] = "rel_batch" =>
              \A P \in Range(loc[i].q) : \A Q \in Candidates(P, loc[i].ecache) :
                  Lawful(EntitySet(P), EntitySet(Q))

\* the Relater has scored a pair in which one entity set contains the other
C20_Witness ==
    /\ EntitySet(1) \subseteq EntitySet(2)
    /\ EntitySet(1) # EntitySet(2)
    /\ Overlap(EntitySet(1), EntitySet(2)) = <<3, 3>>
    /\ RowCount(1, 2) > 0

\* ------------------------------------------------------------ extraction
Extractors == {"Processor", "EntityExtractor"}

\* the batch an invocation standing at its process_batch is to handle
BatchAt(i) ==
    CASE pc[i] = "proc_batch" -> Take(loc[i].q, PROCESS_BATCH_SIZE)
      [] pc[i] = "ext_batch" -> loc[i].batch
      [] pc[i] = "rel_batch" -> Take(loc[i].q, RELATE_BATCH_SIZE)
      [] OTHER -> <<>>

\* this step commits a batch of invocation i
Commits(i) == hist'[i].batches = hist[i].batches + 1

\* the number of Entity rows of post p in a table
EntityRows(tbl, p) == Cardinality({n \in DOMAIN tbl : tbl[n].post = p})

\* C21: an extraction pass over a queued post whose description is empty
\* adds no Entity row and no similarity_queue row for it, and deletes its
\* entity_queue row
C21_EmptyDescription ==
    [][\A i \in Slots :
        (JobOf(i) \in Extractors /\ Commits(i)) =>
            \A p \in Range(BatchAt(i)) :
                posts[p].text = "none" =>
                    /\ p \notin entityQueue'
                    /\ EntityRows(entities', p) = EntityRows(entities, p)
                    /\ p \in similarityQueue' => p \in similarityQueue]_vars

\* a pass took post 2, which has no description, off the queue and gave
\* entities to post 1 only
C21_Witness ==
    \E i \in Slots :
        /\ JobOf(i) \in Extractors
        /\ hist[i].batches > 0
        /\ 2 \in hist[i].fetched
        /\ 2 \notin entityQueue
        /\ EntityRows(entities, 2) = 0
        /\ EntityRows(entities, 1) > 0
        /\ 2 \notin similarityQueue

\* C22: once an extraction pass over a post is committed, the post is in
\* the similarity queue if and only if the pass persisted at least one
\* Entity row for it
C22_RelationQueued ==
    [][\A i \in Slots :
        (JobOf(i) \in Extractors /\ Commits(i)) =>
            \A p \in Range(BatchAt(i)) :
                p \in similarityQueue'
                    <=> EntityRows(entities', p) > EntityRows(entities, p)]_vars

\* an extractor run that acquired the lock and returned without an error
Completed(i) ==
    /\ JobOf(i) \in Extractors
    /\ pc[i] = "done"
    /\ hist[i].acquired
    /\ hist[i].err = "none"

\* C23 as stated: after an extractor run that acquired the lock and
\* completed without error, every entity_queue row that existed when the
\* run started has been deleted
C23_QueueDrained ==
    \A i \in Slots : Completed(i) => hist[i].queued \cap entityQueue = {}

\* C23 as amended: after an extractor run that acquired the lock,
\* completed without error and was not stopped by the lock re-check of its
\* batch loop, every entity_queue row the run fetched has been deleted
C23_FetchedDrained ==
    \A i \in Slots :
        (Completed(i) /\ ~hist[i].cut) => hist[i].fetched \cap entityQueue = {}

\* a run fetched the three queued posts, was not stopped, and left the
\* queue empty
C23_Witness ==
    \E i \in Slots :
        /\ Completed(i)
        /\ ~hist[i].cut
        /\ hist[i].fetched = {1, 2, 3}
        /\ hist[i].batches > 0
        /\ entityQueue = {}

\* the terms a committing pass of invocation i persists for post p
KeptTerms(i, p) ==
    {entities'[n].entity : n \in
        {m \in DOMAIN entities' : m > Len(entities) /\ entities'[m].post = p}}

\* the terms the invocation's extract() finds in a text, as often as they
\* occur
TermsOf(i, text) ==
    IF JobOf(i) = "EntityExtractor" THEN Spans(text) ELSE Words(text)

\* C24: one extraction pass over a post persists at most TOP_N_ENTITIES
\* Entity rows for it, their terms pairwise distinct, and no term it drops
\* occurs more often in the post's text than a term it keeps
C24_TopEntities ==
    [][\A i \in Slots :
        (JobOf(i) \in Extractors /\ Commits(i)) =>
            \A p \in Range(BatchAt(i)) :
                LET rows == EntityRows(entities', p) - EntityRows(entities, p)
                    kept == KeptTerms(i, p)
                    terms == TermsOf(i, posts[p].text)
                IN /\ rows <= TOP_N_ENTITIES
                   /\ Cardinality(kept) = rows
                   /\ rows > 0 =>
                        \A d \in Range(terms) \ kept : \A k \in kept :
                            Count(d, terms) <= Count(k, terms)]_vars

\* ------------------------------------------------------------------- CTR
\* a CTR run that acquired the lock and returned
Updated(i) == JobOf(i) = "CTR" /\ pc[i] = "done" /\ hist[i].acquired

Counted(p) == postActions[p].clicks > 0 /\ postActions[p].impressions > 0

\* C25: after a CTR run that acquired the lock, every post_actions row
\* with clicks and impressions whose post is inside the one-day window has
\* ctr = clicks / impressions, in thousandths
C25_CtrComputed ==
    \A i \in Slots : Updated(i) =>
        \A p \in DOMAIN postActions :
            (Counted(p) /\ posts[p].published >= now - DAY) =>
                postActions[p].ctr * 2 * postActions[p].impressions
                    \in (2000 * postActions[p].clicks - postActions[p].impressions + 1)
                        .. (2000 * postActions[p].clicks + postActions[p].impressions)

\* a run has returned and post 1, clicked once in two impressions, stands
\* at one half
C25_Witness ==
    \E i \in Slots :
        /\ Updated(i)
        /\ hist[i].worked
        /\ posts[1].published >= now - DAY
        /\ postActions[1].ctr = 500

\* C26: no step changes the ctr of a post_actions row with no impressions
\* or with no clicks, and no CTR run divides by zero
C26_UncountedUntouched ==
    [][/\ \A p \in DOMAIN postActions :
            ~Counted(p) => postActions'[p].ctr = postActions[p].ctr
       /\ \A i \in Slots : hist'[i].err # "ZeroDivisionError"]_vars

\* a run has worked and returned; the row with clicks and no impressions
\* and the row with impressions and no clicks are as they were
C26_Witness ==
    \E i \in Slots :
        /\ Updated(i)
        /\ hist[i].worked
        /\ postActions[4] = Action(2, 0, 0)
        /\ postActions[5] = Action(0, 3, 0)
        /\ postActions[1].ctr = 500

\* C27: after a CTR run that acquired the lock, every post_actions row with
\* clicks and impressions whose post was published more than one day before
\* the run asked for the expired posts has ctr = 0
C27_ExpiredZeroed ==
    \A i \in Slots : Updated(i) =>
        \A p \in DOMAIN postActions :
            (Counted(p) /\ posts[p].published < hist[i].expAt - DAY) =>
                postActions[p].ctr = 0

\* ------------------------------------------------------- failed commits
\* where a job stands when it commits a batch, or a post of a batch
Committing == {"proc_batch", "ext_batch", "rel_batch", "col_save_post"}

\* where a job stands between its rollback and its lock.remove()
Unlocking == {"proc_unlock", "ext_unlock", "rel_unlock"}

CommitErrors == {"IntegrityError", "OperationalError", "DataError"}

\* this step is a commit of invocation i that fails
CommitFails(i) ==
    /\ pc[i] \in Committing
    /\ hist[i].err = "none"
    /\ hist'[i].err \in CommitErrors

\* C28: when a batch commit fails in the Collector, an extractor or the
\* Relater, no write of that batch is in the store and what earlier batches
\* committed stays, the run ends with the error, and when it ends the lock
\* record of its kind is gone
C28_FailedCommit ==
    [][\A i \in Slots :
        /\ CommitFails(i) =>
            /\ tables' = tables
            /\ JobOf(i) = "Collector" => Len(posts) = loc[i].mark
            /\ pc'[i] \in Unlocking \cup {"failed", "crashed"}
        /\ ( /\ CommitFails(i) \/ pc[i] \in Unlocking
             /\ pc'[i] \in Terminal
             /\ hist'[i].err # "Killed" ) =>
            /\ {r \in joblock' : r.job = KindOf(i)} = {}
            /\ pc'[i] \in {"failed", "crashed"}
            /\ tables' = tables]_vars

\* ------------------------------------------------------- atomic batches
\* this step commits a batch of a job of the given kinds that holds post p
CommitsWith(jobs, p) ==
    \E i \in Slots :
        JobOf(i) \in jobs /\ Commits(i) /\ p \in Range(BatchAt(i))

\* the pass of an extractor over post p has something to insert
Extractable(i, p) ==
    posts[p].text # "none" /\ TermsOf(i, posts[p].text) # <<>>

\* the Relater's pass over post P has the edge pair with Q to insert
Relatable(P, Q) ==
    /\ Q # P
    /\ SharesTerm(P, Q)
    /\ 4 * Cardinality(EntitySet(P) \cap EntitySet(Q))
            >= 3 * Min(Cardinality(EntitySet(P)), Cardinality(EntitySet(Q)))

\* C29: the inserts of a pass and the deletion of its queue row come
\* together or not at all.  No step adds Entity rows or a similarity_queue
\* row for a post and leaves its entity_queue row, nor deletes the
\* entity_queue row without the Entity rows of the pass; no step adds
\* Similarity rows and leaves the similarity_queue rows of the batch they
\* belong to, nor deletes a similarity_queue row without the pairs of its
\* post
C29_AtomicBatches ==
    [][/\ \A p \in DOMAIN posts :
            ( \/ EntityRows(entities', p) > EntityRows(entities, p)
              \/ p \in similarityQueue' \ similarityQueue ) =>
                /\ p \notin entityQueue'
                /\ CommitsWith(Extractors, p)
       /\ \A p \in entityQueue \ entityQueue' :
            \E i \in Slots :
                /\ JobOf(i) \in Extractors /\ Commits(i) /\ p \in Range(BatchAt(i))
                /\ Extractable(i, p) =>
                        EntityRows(entities', p) > EntityRows(entities, p)
       /\ similarities' # similarities =>
            \E i \in Slots :
                /\ JobOf(i) = "Relater" /\ Commits(i)
                /\ Range(BatchAt(i)) \cap similarityQueue' = {}
                /\ \A n \in DOMAIN NewRows :
                        \/ NewRows[n].source_id \in Range(BatchAt(i))
                        \/ NewRows[n].related_id \in Range(BatchAt(i))
       /\ \A P \in similarityQueue \ similarityQueue' :
            /\ CommitsWith({"Relater"}, P)
            /\ \A Q \in DOMAIN posts :
                    Relatable(P, Q) => HasRow(NewRows, P, Q) /\ HasRow(NewRows, Q, P)
      ]_vars

\* a Processor batch is committed: the three posts are off the entity
\* queue, posts 1 and 3 have their entities and are queued for relation
C29_Witness ==
    \E i \in Slots :
        /\ JobOf(i) = "Processor"
        /\ hist[i].batches > 0
        /\ entityQueue = {}
        /\ EntityRows(entities, 1) > 0
        /\ EntityRows(entities, 3) = TOP_N_ENTITIES
        /\ similarityQueue = {1, 3}

\* ---------------------------------------------------- the lock re-check
Rechecked == {"Collector", "EntityExtractor"}

\* invocation i is at the lock re-check that precedes a batch
Rechecking(i) ==
    \/ pc[i] \in {"col_recheck", "ext_recheck"} /\ loc[i].q # <<>>
    \/ pc[i] \in {"exp_count", "exp_row"} /\ loc[i].ctx = "loop"

\* this step of invocation i begins a batch
StartsBatch(i) ==
    pc'[i] \in {"col_submit", "ext_batch"} /\ pc[i] \notin {"col_submit", "ext_batch"}

\* C30: the Collector and the EntityExtractor begin a batch only out of the
\* lock re-check; a step of the re-check taken while the lock record of
\* their kind is absent or expired begins no batch, and it leaves the
\* tables as the earlier batches committed them
C30_RecheckStops ==
    [][\A i \in Slots : JobOf(i) \in Rechecked =>
        /\ StartsBatch(i) => Rechecking(i)
        /\ ( /\ Rechecking(i)
             /\ pc'[i] # pc[i]
             /\ \/ ~IsLocked(KindOf(i))
                \/ IsExpired(KindOf(i), LockTimeout(JobOf(i))) ) =>
                    ~StartsBatch(i) /\ tables' = tables]_vars

\* ------------------------------------------------- recognition failures
\* this step is extract() raising in a batch of invocation i
Raising(i) ==
    /\ pc[i] \in {"proc_batch", "ext_batch"}
    /\ hist[i].err = "none"
    /\ hist'[i].err = "ValueError"

\* C31: when entity recognition raises during a batch of an extractor, no
\* Entity row, no similarity_queue row and no entity_queue deletion of that
\* batch reaches the store: every post of the batch that was queued is
\* still queued, for a later run to take up
C31_RecognitionRaises ==
    [][\A i \in Slots :
        (JobOf(i) \in Extractors /\ Raising(i)) =>
            /\ entities' = entities
            /\ similarityQueue' = similarityQueue
            /\ entityQueue' = entityQueue
            /\ similarities' = similarities
            /\ pc'[i] = "crashed"]_vars

\* recognition raised in one run's batch of posts 1 to 3 and left no row;
\* a later run has taken the same three posts up
C31_Witness ==
    \E i, j \in Slots :
        /\ JobOf(i) \in Extractors
        /\ pc[i] = "crashed" /\ hist[i].err = "ValueError"
        /\ hist[i].fetched = {1, 2, 3}
        /\ entities = <<>> /\ similarityQueue = {}
        /\ pc[j] \in {"proc_batch", "ext_batch"}
        /\ hist[j].at > hist[i].at
        /\ hist[j].fetched = {1, 2, 3}

\* --------------------------------------------- items without entities
\* a row of rows has post p at one of its ends
Touches(rows, p) ==
    \E n \in DOMAIN rows : rows[n].source_id = p \/ rows[n].related_id = p

\* C32: no step adds a Similarity row from or to an item that has no
\* Entity row, and the Relater batch that holds such an item deletes its
\* similarity_queue row
C32_NoEntitiesNoEdge ==
    [][/\ \A p \in DOMAIN posts :
            EntitySet(p) = {} => ~Touches(NewRows, p)
       /\ \A i \in Slots :
            (JobOf(i) = "Relater" /\ Commits(i)) =>
                \A p \in Range(BatchAt(i)) :
                    EntitySet(p) = {} => p \notin similarityQueue']_vars

\* a Relater run has related posts 1 and 2 and taken post 5, which has no
\* Entity row, off the queue without a row
C32_Witness ==
    \E i \in Slots :
        /\ JobOf(i) = "Relater"
        /\ hist[i].batches > 0
        /\ EntitySet(5) = {}
        /\ similarityQueue = {}
        /\ similarities # <<>>
        /\ ~Touches(similarities, 5)

\* ------------------------------------------------------ lock ownership
\* C33: no step of a run deletes a lock record that another invocation of
\* its kind created, while that invocation is still running and the record
\* is not older than the timeout
C33_OnlyOwnLock ==
    [][\A i \in Slots : \A r \in joblock \ joblock' :
        pc'[i] # pc[i] =>
            \/ r.by = i
            \/ Orphan(r)
            \/ RowExpired(r, LockTimeout(JobOf(i)))]_vars

\* where a run stands when it is about to call Lock.remove() for its own
\* record: at the end of run(), also after a re-check broke its loop, and
\* in the handler of a failed commit
Removing == {"release"} \cup Unlocking

\* C34: whenever a run calls Lock.remove() at its end or in a commit
\* failure handler, a lock record of its kind exists
C34_RemoveFindsRecord ==
    [][\A i \in Slots :
        (pc[i] \in Removing /\ pc'[i] # pc[i] /\ hist'[i].err # "Killed") =>
            /\ LockRows(KindOf(i)) # {}
            /\ hist'[i].err # "AttributeError"]_vars

\* ------------------------------------------------------ distinct terms
\* C35: no post has two Entity rows with the same term
C35_DistinctTerms ==
    \A n, m \in DOMAIN entities :
        ( /\ entities[n].post = entities[m].post
          /\ entities[n].entity = entities[m].entity ) => n = m

\* ----------------------------------------------------------- the queues
\* C38: after every step no post is in entity_queue and in
\* similarity_queue at once, and neither queue gets a second row for a
\* post: a Processor batch commits no similarity_queue row for a post that
\* has one, and the Collector's entity_queue row is the first of its post
C38_QueuesDisjoint ==
    [][/\ entityQueue' \cap similarityQueue' = {}
       /\ \A i \in Slots :
            (JobOf(i) = "Processor" /\ Commits(i)) =>
                WithEntities(BatchAt(i)) \cap similarityQueue = {}
       /\ \A i \in Slots :
            (pc[i] = "col_save_queue" /\ pc'[i] = "col_save_post") =>
                loc[i].pid \notin entityQueue \cup similarityQueue]_vars

\* one Processor run has moved posts 1 and 3 from the entity queue to the
\* relation queue, and the commit of a second run that had read the same
\* queue rows was refused
C38_Witness ==
    \E i, j \in Slots :
        /\ JobOf(i) = "Processor"
        /\ pc[i] = "done" /\ hist[i].batches > 0
        /\ pc[j] = "failed" /\ hist[j].err = "IntegrityError"
        /\ hist[j].fetched = {1, 2, 3}
        /\ entityQueue = {}
        /\ similarityQueue = {1, 3}

\* ------------------------------------------------------------- overlap
\* C39: whenever the Relater is about to process a batch, every post of the
\* batch that has a candidate has entities, and so has every candidate, so
\* overlap divides by a positive number; no run ends in ZeroDivisionError
C39_OverlapNonempty ==
    [][\A i \in Slots :
        /\ hist'[i].err # "ZeroDivisionError"
        /\ (pc[i] = "rel_batch" /\ loc'[i] # loc[i]) =>
              \A p \in Range(Take(loc[i].q, RELATE_BATCH_SIZE)) :
                \A rp \in Candidates(p, loc[i].ecache) :
                    /\ EntitySet(p) # {}
                    /\ EntitySet(rp) # {}
                    /\ Overlap(EntitySet(p), EntitySet(rp))[2] > 0]_vars

\* a Relater run has committed the batch of posts 1, 2 and 5, of which 5
\* has no entities, against a cache of other posts' entities
C39_Witness ==
    \E i \in Slots :
        /\ JobOf(i) = "Relater"
        /\ hist[i].batches > 0
        /\ hist[i].err = "none"
        /\ EntitySet(5) = {}
        /\ 5 \notin similarityQueue
        /\ similarities # <<>>

Pipelines ==
    {[jobs |-> <<"Collector", j>>, feed |-> << <<Entry("d", 0)>>, <<>> >>,
      fx |-> [NoTables EXCEPT
                !.posts = <<Post(1, "a", 0, "t1"), Post(2, "b", 0, "none"),
                            Post(1, "c", 0, "t5")>>,
                !.actions = <<Action(0, 0, 0), Action(0, 0, 0), Action(0, 0, 0)>>,
                !.entityQueue = {1, 2, 3}]] : j \in Extractors}
    \cup
    {[jobs |-> <<"Processor", "Relater">>, feed |-> << <<>>, <<>> >>,
      fx |-> [NoTables EXCEPT
                !.posts = <<Post(1, "a", 0, "t1"), Post(1, "b", 0, "t2"),
                            Post(1, "c", 0, "t3"), Post(1, "d", 0, "t4"),
                            Post(1, "e", 0, "none"), Post(1, "f", 0, "t1")>>,
                !.actions = <<Action(0, 0, 0), Action(0, 0, 0), Action(0, 0, 0),
                              Action(0, 0, 0), Action(0, 0, 0), Action(0, 0, 0)>>,
                !.entities = TextEntities(1, "t1") \o TextEntities(2, "t2")
                                \o TextEntities(3, "t3") \o TextEntities(4, "t4"),
                !.entityQueue = {6},
                !.similarityQueue = {1, 2}]]}

PipelineInit ==
    /\ \E s \in Pipelines :
        /\ cfg = [jobs |-> s.jobs, dt |-> LockTimeout(s.jobs[2]), ticks |-> 0,
                  feeds |-> {1}]
        /\ posts = s.fx.posts
        /\ postActions = s.fx.actions
        /\ entityQueue = s.fx.entityQueue
        /\ similarityQueue = s.fx.similarityQueue
        /\ entities = s.fx.entities
        /\ similarities = s.fx.similarities
        /\ status = [f \in Feeds |-> Status(0 - Pow2(MIN_UPDATE_FREQ), MIN_UPDATE_FREQ)]
        /\ feedData = s.feed
    /\ now = 0
    /\ crashes = 0
    /\ joblock = {}
    /\ threads = [i \in Slots |-> [f \in Feeds |-> ThreadInit]]
    /\ cache = [i \in Slots |-> [s \in {1} |-> {}]]
    /\ pc = [i \in Slots |-> "idle"]
    /\ loc = [i \in Slots |-> LocInit]
    /\ hist = [i \in Slots |-> HistInit]

\* the steps of the four queue jobs; no lock goes stale, the clock stands
PipelineStep(i) ==
    \/ Run(i)
    \/ ExpiredCount(i)
    \/ ExpiredRow(i)
    \/ Create(i)
    \/ Release(i)
    \/ ProcFetch(i)
    \/ ProcBatch(i)
    \/ ExtFetch(i)
    \/ ExtRecheck(i)
    \/ ExtBatch(i)
    \/ ExtractRaises(i)
    \/ FailUnlock(i)
    \/ RelCount(i)
    \/ RelCat(i)
    \/ RelBatch(i)
    \/ ColCat(i)
    \/ ColRecheck(i)
    \/ ColSubmit(i)
    \/ \E f \in Feeds : ThreadParse(i, f)
    \/ \E f \in Feeds : ThreadCheck(i, f)
    \/ \E f \in Feeds : ThreadAdd(i, f)
    \/ ColSaveNext(i)
    \/ ColSavePost(i)
    \/ ColSaveAction(i)
    \/ ColSaveQueue(i)
    \/ ColStatus(i)

PipelineNext == \E i \in Slots : PipelineStep(i)

PipelineSpec == PipelineInit /\ [][PipelineNext]_vars

\* C37: a step deletes an entity_queue row only as part of the commit of an
\* extractor batch that holds the row's post, took it from the run's queue
\* snapshot and has extracted its entities, and a similarity_queue row only
\* as part of the commit of a Relater batch that holds the row's post and
\* has inserted its edges; a row queued by another job after the snapshot
\* stays
C37_OnlyProcessedRows ==
    [][/\ \A p \in entityQueue \ entityQueue' :
            \E i \in Slots :
                /\ JobOf(i) \in Extractors /\ Commits(i)
                /\ p \in Range(BatchAt(i)) \cap hist[i].fetched
                /\ Extractable(i, p) =>
                        EntityRows(entities', p) > EntityRows(entities, p)
       /\ \A p \in similarityQueue \ similarityQueue' :
            \E i \in Slots :
                /\ JobOf(i) = "Relater" /\ Commits(i)
                /\ p \in Range(BatchAt(i))
                /\ \A rp \in Related(p, loc[i].ecache) : HasRow(NewRows, p, rp)
       /\ \A i \in Slots : Commits(i) =>
            /\ (entityQueue \ Range(BatchAt(i))) \subseteq entityQueue'
            /\ (similarityQueue \ Range(BatchAt(i))) \subseteq similarityQueue']_vars

\* an extractor run has committed its snapshot of posts 1, 2 and 3 and
\* still stands in its batch loop; post 4, which the Collector saved and
\* queued meanwhile, was not in the snapshot and is still queued
C37_Witness ==
    \E i \in Slots :
        /\ JobOf(1) = "Collector"
        /\ JobOf(i) \in Extractors
        /\ Active(i)
        /\ hist[i].fetched = {1, 2, 3}
        /\ hist[i].batches > 0
        /\ Len(posts) = 4
        /\ entityQueue = {4}

\* the Relater has committed its snapshot of posts 1 and 2 and still stands
\* in its batch loop; post 6, which the Processor queued for relation
\* meanwhile, is still queued
C37_RelaterWitness ==
    /\ JobOf(2) = "Relater"
    /\ pc[2] = "rel_batch"
    /\ hist[2].batches > 0
    /\ similarities # <<>>
    /\ similarityQueue = {6}

\* ------------------------------------------------------------ a backlog
\* The entity queue holds more rows than one EntityExtractor run takes,
\* and the Collector goes on saving posts. A row is named by its place in
\* the order of the ids: the run deletes the newest rows it fetched, and
\* the posts the Collector saves next take the places above the rows that
\* are left, so the order in which get_enqueued_posts sees the rows is the
\* order of the database's ids while the names stay bounded. The posts
\* have no description, so that the entities table plays no part; nothing
\* fails and no lock goes stale.
QueueCap == PER_RUN_LIMIT + MaxBacklog

BacklogInit ==
    /\ cfg = [jobs |-> <<"EntityExtractor", "off">>, dt |-> LockTimeout("EntityExtractor"),
              ticks |-> 0, feeds |-> {1}]
    /\ now = 0
    /\ crashes = MaxCrashes
    /\ joblock = {}
    /\ posts = [p \in 1..QueueCap |-> Post(1, "a", 0, "none")]
    /\ postActions = [p \in 1..QueueCap |-> Action(0, 0, 0)]
    /\ entityQueue = 1..QueueCap
    /\ similarityQueue = {}
    /\ entities = <<>>
    /\ similarities = <<>>
    /\ status = NoTables.status
    /\ feedData = << <<>>, <<>> >>
    /\ threads = [i \in Slots |-> [f \in Feeds |-> ThreadInit]]
    /\ cache = [i \in Slots |-> [s \in {1} |-> {}]]
    /\ pc = [i \in Slots |-> "idle"]
    /\ loc = [i \in Slots |-> LocInit]
    /\ hist = [i \in Slots |-> HistInit]

\* the newest queued post, 0 when the queue is empty
Newest ==
    IF entityQueue = {} THEN 0
    ELSE QueuedPosts(entityQueue)[Cardinality(entityQueue)]

\* a Collector run, as far as the entity queue sees it: MaxArrivals posts
\* are saved, each with its entity_queue row
Collected ==
    /\ Newest + MaxArrivals <= QueueCap
    /\ entityQueue' = entityQueue \cup ((Newest + 1)..(Newest + MaxArrivals))
    /\ UNCHANGED <<cfg, now, crashes, joblock, posts, postActions, similarityQueue,
                   entities, similarities, coll, pc, loc, hist>>

\* the statements of EntityExtractor.run
ExtractorStep(i) ==
    \/ Run(i)
    \/ ExpiredCount(i)
    \/ ExpiredRow(i)
    \/ Create(i)
    \/ ExtFetch(i)
    \/ ExtRecheck(i)
    \/ ExtBatch(i)
    \/ Release(i)

BacklogNext ==
    \/ \E i \in Slots : ExtractorStep(i)
    \/ Collected

\* the scheduler keeps starting the process command, and a started
\* invocation keeps running; the Collector runs whenever it does
BacklogSpec ==
    BacklogInit /\ [][BacklogNext]_vars /\ \A i \in Slots : WF_vars(ExtractorStep(i))

\* C36: under fair scheduling of the EntityExtractor and without failures
\* the oldest entity_queue row is eventually deleted, however the Collector
\* keeps queuing newer ones
C36_OldestServed == (1 \in entityQueue) ~> (1 \notin entityQueue)

====
